---- MODULE Spec2Model ----
(***************************************************************************)
(* Sparkplug B edge node (src/sparkplugb/edge_node.py) with the part of    *)
(* the payload builder (src/sparkplugb/payload.py) its messages go         *)
(* through.  One action per public method or inbound-message handler of    *)
(* SparkplugBEdgeNode; the MQTT client, the bdSeq file and the owning      *)
(* application are the environment.                                        *)
(***************************************************************************)
EXTENDS Integers, Sequences, FiniteSets, TLC

(***************************************************************************)
(* Bounds of the model.                                                    *)
(***************************************************************************)
\* connect() calls explored in one behaviour
MaxConnects == 3
\* NBIRTH/NDATA publishes explored per process lifetime (seq starts at 0)
MaxSeq == 3
\* connect() calls explored in one behaviour of the metric-store and long-run specifications
MaxConnectsM == 1
\* NBIRTH/NDATA publishes explored in one behaviour of the metric-store specification
MaxSeqM == 2

(***************************************************************************)
(* Inputs the environment draws from.                                      *)
(***************************************************************************)
Rebirth == "Node Control/Rebirth"
Names == {Rebirth, "a"}
Timestamps == {50, 100, 200}

\* payload.py DataType codes used by the inputs
Int64 == 4
Double == 10
Boolean == 11
DataSet == 16
Template == 19
BooleanArray == 32
StringArray == 33

\* A Python value: its runtime kind and its number in units of 1e-6.
BoolV(b) == [kind |-> "bool", num |-> IF b THEN 1000000 ELSE 0]
IntV(n) == [kind |-> "int", num |-> n * 1000000]
FloatV(micro) == [kind |-> "float", num |-> micro]
\* Python's None as a value, a list, and a bytes object (bytes are 0..255)
NoneV == [kind |-> "none", num |-> 0]
ListV(items) == [kind |-> "list", items |-> items]
BytesV(data) == [kind |-> "bytes", data |-> data]
Values == {BoolV(FALSE), BoolV(TRUE), FloatV(1000000), FloatV(1000004)}
\* (name, datatype, initial value) the application registers metrics with
NewMetrics == {<<Rebirth, Boolean, BoolV(FALSE)>>, <<"a", Double, FloatV(1000000)>>}

\* absent values
None == -1
NoMsg == <<>>

\* Callbacks: the lambda __init__ registers for Rebirth, and two callbacks of
\* the application, one that returns and one that raises.
RebirthCallback == "rebirth"
Callbacks == {"cb", "cbRaises"}
NoCallback == "none"

(***************************************************************************)
(* State.                                                                  *)
(***************************************************************************)
VARIABLES
    hostId,       \* primary_host_application_id: TRUE when one is configured
    connected,    \* self.connected
    established,  \* self.sparkplug_session_established
    prevMsg,      \* self.previous_primary_host_application_msg: NoMsg or <<timestamp, online>>
    bdSeq,        \* self.bdSeq
    seq,          \* self.seq
    metrics,      \* self.metrics: insertion-ordered dict, a sequence of [name, datatype, value]
    commands,     \* self.commands: per name, the callback registered for it (NoCallback: none)
    slot,         \* content of the bdSeq file: None when it cannot be read, else the integer
    will,         \* last will held by the MQTT client object: <<>> or <<message>>
    brokerWill,   \* last will the broker holds for the open transport session: <<>> or <<message>>
    subs,         \* topics subscribed in the open transport session
    op,           \* the call just made: [name, arg]
    out,          \* messages handed to client.publish by that call, in order
    raised,       \* whether that call raised to its caller
    pre,          \* the node's fields when that call began
    connects,     \* connect() calls so far
    calls,        \* methods of the MQTT client that call invoked, in order
    invoked,      \* command callbacks that call invoked, in order: [callback, value]
    lastBirthBd,  \* bdSeq carried by the most recent NBIRTH (None: none yet)
    okWillBd,     \* bdSeq of the last will registered by the most recent successful connect()
    lastOkBd,     \* bdSeq of the most recent successfully connected session of this process
    lastSeqPub,   \* seq carried by the most recent NBIRTH/NDATA of this process
    awaiting,     \* a successful connect() with a host id happened and no online=true was accepted since
    latest,       \* per metric name, the value the application stored last (None: not in the store)
    order,        \* the names in the store, in the order the application added them
    deferred,     \* names whose value was stored while not established, no NBIRTH published since
    bornBd,       \* bdSeq of the last NBIRTH published since established was last false (None: none)
    scn,          \* progress of the arbitration sequence (100,T),(50,F),(200,F): [step, births, deaths, fresh]
    codec,        \* a use of the payload builder on its own: [concat, fn, datatype, arg, metric, res]
    keepAlive     \* client.keepalive and the _keep_alive tasks created: [interval, tasks, beat]

node == <<hostId, connected, established, prevMsg, bdSeq, seq, metrics, commands>>
env == <<slot, will, brokerWill, subs>>
obs == <<op, out, raised, pre, connects, calls, invoked>>
mon == <<lastBirthBd, okWillBd, lastOkBd, lastSeqPub, awaiting, latest, order, deferred, bornBd, scn>>
vars == <<node, env, obs, mon, codec, keepAlive>>

(***************************************************************************)
(* Helpers on the metric store (a Python dict keeps insertion order).      *)
(***************************************************************************)
MetricNames(m) == {m[i].name : i \in 1..Len(m)}
IndexOf(m, name) == CHOOSE i \in 1..Len(m) : m[i].name = name
Lookup(m, name) == m[IndexOf(m, name)]
\* a store that does not take the value
WithValueDropped(m, name, value) == m
WithValue(m, name, value) ==
    [i \in 1..Len(m) |-> IF m[i].name = name
                          THEN [name |-> name, datatype |-> m[i].datatype, value |-> value]
                          ELSE m[i]]
\* a store that keeps the metric
WithoutNothing(m, name) == m
Without(m, name) == SelectSeq(m, LAMBDA e : e.name # name)

(***************************************************************************)
(* Counters.                                                               *)
(***************************************************************************)
\* a counter that does not wrap
IncrementBdSeqNoWrap(x) == x + 1
IncrementBdSeq(x) == (x + 1) % 256

\* a counter that does not wrap
IncrementSeqNoWrap(x) == x + 1
IncrementSeq(x) == (x + 1) % 256

LoadBdSeq(file) == IF file = None THEN 0 ELSE file

(***************************************************************************)
(* payload.py: _Payload.add_metric and the payloads of the node.           *)
(***************************************************************************)
WireSlot(datatype) ==
    CASE datatype \in {1, 2, 3, 5, 6, 7} -> "int_value"
      [] datatype \in {4, 8, 13} -> "long_value"
      [] datatype = 9 -> "float_value"
      [] datatype = 10 -> "double_value"
      [] datatype = 11 -> "boolean_value"
      [] datatype \in {12, 14, 15} -> "string_value"
      [] datatype = 16 -> "dataset_value"
      [] datatype \in {17, 18} -> "bytes_value"
      [] datatype \in 22..34 -> "bytes_value"
      [] OTHER -> "unsupported"

\* struct.pack("<I", n) and struct.unpack("<I", b)
LittleEndian32(n) ==
    <<n % 256, (n \div 256) % 256, (n \div 65536) % 256, (n \div 16777216) % 256>>
FromLittleEndian32(b) == b[1] + 256 * b[2] + 65536 * b[3] + 16777216 * b[4]

\* BooleanArray: the bits as '0'/'1' characters, padded with '0' to a multiple
\* of 8, every 8 characters read as one binary number.
BinaryString(value) == [i \in 1..Len(value) |-> IF value[i] THEN 1 ELSE 0]
Padded(bits) ==
    bits \o [i \in 1..(8 * ((Len(bits) + 7) \div 8) - Len(bits)) |-> 0]
\* the eight bits read least significant first
ByteOfBitsReversed(bits, first) ==
    bits[first] + bits[first + 1] * 2 + bits[first + 2] * 4 + bits[first + 3] * 8
    + bits[first + 4] * 16 + bits[first + 5] * 32 + bits[first + 6] * 64 + bits[first + 7] * 128
ByteOfBits(bits, first) ==
    bits[first] * 128 + bits[first + 1] * 64 + bits[first + 2] * 32 + bits[first + 3] * 16
    + bits[first + 4] * 8 + bits[first + 5] * 4 + bits[first + 6] * 2 + bits[first + 7]
EncodeBooleanArray(value) ==
    LET padded == Padded(BinaryString(value))
    IN  LittleEndian32(Len(value))
        \o [k \in 1..(Len(padded) \div 8) |-> ByteOfBits(padded, 8 * (k - 1) + 1)]

\* f'{byte:08b}' for every byte after the count, cut to the count
BitsOfByte(byte) == [j \in 1..8 |-> (byte \div (2 ^ (8 - j))) % 2]
RECURSIVE BitsOfBytes(_)
BitsOfBytes(bytes) ==
    IF bytes = <<>> THEN <<>> ELSE BitsOfByte(Head(bytes)) \o BitsOfBytes(Tail(bytes))
Min(a, b) == IF a < b THEN a ELSE b
DecodeBooleanArray(bytes) ==
    LET boolean_count == FromLittleEndian32(SubSeq(bytes, 1, 4))
        all == BitsOfBytes(SubSeq(bytes, 5, Len(bytes)))
    IN  [i \in 1..Min(boolean_count, Len(all)) |-> all[i] = 1]

\* Strings are sequences of code points below 2048; str.encode('utf-8') and
\* bytes.decode('utf-8') on them.
NUL == 0
RECURSIVE Utf8Encode(_)
Utf8Encode(string) ==
    IF string = <<>> THEN <<>>
    ELSE (IF Head(string) < 128 THEN <<Head(string)>>
          ELSE <<192 + (Head(string) \div 64), 128 + (Head(string) % 64)>>)
         \o Utf8Encode(Tail(string))
RECURSIVE Utf8Decode(_)
Utf8Decode(bytes) ==
    IF bytes = <<>> THEN <<>>
    ELSE IF Head(bytes) < 128 THEN <<Head(bytes)>> \o Utf8Decode(Tail(bytes))
    ELSE <<(Head(bytes) - 192) * 64 + (bytes[2] - 128)>> \o Utf8Decode(Tail(Tail(bytes)))

\* '\0'.join(value) and string.split('\0')
RECURSIVE JoinNul(_)
JoinNul(value) ==
    IF value = <<>> THEN <<>>
    ELSE IF Len(value) = 1 THEN value[1]
    ELSE value[1] \o <<NUL>> \o JoinNul(Tail(value))
RECURSIVE SplitNul(_)
SplitNul(string) ==
    IF \A i \in 1..Len(string) : string[i] # NUL THEN <<string>>
    ELSE LET first == CHOOSE i \in 1..Len(string) :
                          string[i] = NUL /\ \A j \in 1..(i - 1) : string[j] # NUL
         IN  <<SubSeq(string, 1, first - 1)>>
             \o SplitNul(SubSeq(string, first + 1, Len(string)))

\* StringArray, where the interpreter concatenates the '\0' str to the bytes
EncodeStringArray(value) == Utf8Encode(JoinNul(value)) \o <<NUL>>
DecodeStringArray(bytes) ==
    LET parts == SplitNul(Utf8Decode(bytes))
    IN  SubSeq(parts, 1, Len(parts) - 1)

\* the value add_metric puts into the slot
EncodeValue(datatype, value) ==
    CASE datatype = BooleanArray -> BytesV(EncodeBooleanArray(value.items))
      [] datatype = StringArray -> BytesV(EncodeStringArray(value.items))
      [] datatype \in (22..34) \ {BooleanArray, StringArray} ->
           [kind |-> "bytes", packed |-> value]
      [] OTHER -> value

\* add_metric appends the metric with the one value slot its datatype selects;
\* a datatype without a slot, or a DataSet datatype with a value that is not
\* a DataSet, is reported and the metric is not added.
AddMetric(ms, name, datatype, value) ==
    IF WireSlot(datatype) = "unsupported" \/ (datatype = DataSet /\ value.kind # "dataset")
    THEN ms
    ELSE Append(ms, [name |-> name, datatype |-> datatype,
                     slot |-> WireSlot(datatype), value |-> EncodeValue(datatype, value)])

\* The dict of a metric: every field of the schema present, None where the
\* metric has no value (_fill_empty_fields_with_none).
ValueFields ==
    {"int_value", "long_value", "float_value", "double_value", "boolean_value",
     "string_value", "bytes_value", "dataset_value"}
MetricDict(name, datatype, field, value) ==
    [f \in ValueFields \cup {"name", "datatype"} |->
        IF f = "name" THEN [kind |-> "str", text |-> name]
        ELSE IF f = "datatype"
        THEN (IF datatype = None THEN NoneV ELSE [kind |-> "int", num |-> datatype])
        ELSE IF f = field THEN value
        ELSE NoneV]

\* _get_metric_value(metric, datatype): [raises, value]
Returns(value) == [raises |-> FALSE, value |-> value]
Raises == [raises |-> TRUE, value |-> NoneV]
GetMetricValue(metric, datatype) ==
    LET dt == IF "datatype" \in DOMAIN metric
              THEN (IF metric["datatype"].kind = "none" THEN None ELSE metric["datatype"].num)
              ELSE datatype
        received_bytes == metric["bytes_value"]
    IN  IF dt = None THEN Returns(NoneV)
        ELSE IF dt = BooleanArray
        THEN IF received_bytes.kind # "bytes" THEN Raises
             ELSE IF Len(received_bytes.data) < 4 THEN Raises
             ELSE Returns(ListV(DecodeBooleanArray(received_bytes.data)))
        ELSE IF dt = StringArray
        THEN IF received_bytes.kind # "bytes" THEN Raises
             ELSE Returns(ListV(DecodeStringArray(received_bytes.data)))
        ELSE IF dt \in 22..34
        THEN IF received_bytes.kind # "bytes" THEN Raises
             ELSE Returns([kind |-> "tuple", unpacked |-> received_bytes])
        ELSE IF WireSlot(dt) = "unsupported" THEN Returns(NoneV)
        ELSE Returns(metric[WireSlot(dt)])

RECURSIVE AddMetrics(_, _)
AddMetrics(ms, entries) ==
    IF entries = <<>> THEN ms
    ELSE AddMetrics(AddMetric(ms, Head(entries).name, Head(entries).datatype,
                              Head(entries).value),
                    Tail(entries))

NDeathPayload(b) ==
    [seq |-> None, metrics |-> AddMetric(<<>>, "bdSeq", Int64, IntV(b))]

\* a birth certificate without the metric store
NBirthPayloadNoMetrics(s, b, m) ==
    [seq |-> s, metrics |-> AddMetric(<<>>, "bdSeq", Int64, IntV(b))]
NBirthPayload(s, b, m) ==
    [seq |-> s, metrics |-> AddMetrics(AddMetric(<<>>, "bdSeq", Int64, IntV(b)), m)]

\* a data message with every metric of the store
NDataPayloadAll(s, m, changed) ==
    [seq |-> s, metrics |-> AddMetrics(<<>>, m)]
NDataPayload(s, m, changed) ==
    [seq |-> s,
     metrics |-> AddMetrics(<<>>, [i \in 1..Len(changed) |-> Lookup(m, changed[i])])]

Msg(topic, payload, qos) ==
    [topic |-> topic, payload |-> payload, qos |-> qos, retain |-> FALSE]
NBirthMsg(s, b, m) == Msg("NBIRTH", NBirthPayload(s, b, m), 0)
NDeathMsg(b) == Msg("NDEATH", NDeathPayload(b), 1)
NDataMsg(s, m, changed) == Msg("NDATA", NDataPayload(s, m, changed), 0)

(***************************************************************************)
(* Report by exception.  Python's == compares bool, int and float by       *)
(* number, whatever their kind.                                            *)
(***************************************************************************)
Abs(x) == IF x < 0 THEN -x ELSE x
AreValuesEqual(value1, value2) ==
    IF value1.num = value2.num THEN TRUE
    ELSE IF value1.kind # value2.kind THEN FALSE
    ELSE IF value1.kind = "float" THEN Abs(value1.num - value2.num) < 10
    ELSE FALSE

(***************************************************************************)
(* Host arbitration: the timestamp gate of the STATE handler.              *)
(***************************************************************************)
\* a gate that lets every timestamp through
AcceptsAll(previous, timestamp) == TRUE
Accepts(previous, timestamp) == previous = NoMsg \/ timestamp >= previous[1]

\* a session established by any accepted message
TransitionOnAny(online, isEstablished) ==
    IF ~isEstablished THEN "establish"
    ELSE IF ~online THEN "terminate"
    ELSE "none"
\* a transition on every accepted message
TransitionAlways(online, isEstablished) == IF online THEN "establish" ELSE "terminate"
\* What an accepted message does to the session: the flag it carries is
\* compared with the established flag.
Transition(online, isEstablished) ==
    IF online /\ ~isEstablished THEN "establish"
    ELSE IF ~online /\ isEstablished THEN "terminate"
    ELSE "none"

(***************************************************************************)
(* Observation of a call: what the monitors record about it.               *)
(***************************************************************************)
Snapshot ==
    [connected |-> connected, established |-> established, prevMsg |-> prevMsg,
     bdSeq |-> bdSeq, seq |-> seq, metrics |-> metrics, commands |-> commands,
     slot |-> slot, subs |-> subs,
     lastOkBd |-> lastOkBd, lastSeqPub |-> lastSeqPub, deferred |-> deferred,
     bornBd |-> bornBd]

Call(name, arg) == [name |-> name, arg |-> arg]
\* one client.publish per message
Publishes(msgs) == [i \in 1..Len(msgs) |-> "publish"]

Births(msgs) == SelectSeq(msgs, LAMBDA m : m.topic = "NBIRTH")
Deaths(msgs) == SelectSeq(msgs, LAMBDA m : m.topic = "NDEATH")
Seqed(msgs) == SelectSeq(msgs, LAMBDA m : m.topic \in {"NBIRTH", "NDATA"})
BdSeqOf(msg) == msg.payload.metrics[1].value.num \div 1000000
Last(s) == s[Len(s)]

NoScn == [step |-> 0, births |-> 0, deaths |-> 0, fresh |-> FALSE]

\* The arbitration sequence, delivered without another call in between to a
\* node that is connected and not established when it begins.
ScnNext ==
    LET b == Len(Births(out'))
        d == Len(Deaths(out'))
        delivered(t, o) == op'.name = "state" /\ op'.arg = <<t, o>>
    IN  IF delivered(100, TRUE) /\ connected /\ ~established
        THEN [step |-> 1, births |-> b, deaths |-> d,
              fresh |-> (prevMsg = NoMsg \/ prevMsg[1] <= 100)]
        ELSE IF scn.step = 1 /\ delivered(50, FALSE)
        THEN [scn EXCEPT !.step = 2, !.births = @ + b, !.deaths = @ + d]
        ELSE IF scn.step = 2 /\ delivered(200, FALSE)
        THEN [scn EXCEPT !.step = 3, !.births = @ + b, !.deaths = @ + d]
        ELSE NoScn

Record ==
    /\ pre' = Snapshot
    /\ lastBirthBd' = IF Births(out') # <<>> THEN BdSeqOf(Last(Births(out')))
                      ELSE lastBirthBd
    /\ okWillBd' = IF (op'.name = "connect" /\ op'.arg[1]) THEN BdSeqOf(will'[1])
                   ELSE okWillBd
    /\ lastOkBd' = IF (op'.name = "connect" /\ op'.arg[1]) THEN bdSeq'
                   ELSE lastOkBd
    /\ lastSeqPub' = IF Seqed(out') # <<>> THEN Last(Seqed(out')).payload.seq
                     ELSE lastSeqPub
    /\ awaiting' = IF op'.name = "disconnect" THEN FALSE
                   ELSE IF (op'.name = "connect" /\ op'.arg[1]) THEN hostId
                   ELSE IF /\ op'.name = "state"
                           /\ op'.arg[2]
                           /\ Accepts(prevMsg, op'.arg[1])
                        THEN FALSE
                   ELSE awaiting
    /\ latest' = [n \in Names |->
                    IF op'.name \in {"add", "addcmd"} /\ op'.arg[1] = n
                       /\ n \notin MetricNames(metrics)
                    THEN op'.arg[3]
                    ELSE IF op'.name = "remove" /\ op'.arg[1] = n
                    THEN None
                    ELSE IF /\ op'.name = "set" /\ op'.arg[1] = n
                            /\ n \in MetricNames(metrics)
                            /\ ~AreValuesEqual(op'.arg[2], Lookup(metrics, n).value)
                    THEN op'.arg[2]
                    ELSE latest[n]]
    /\ order' = IF op'.name \in {"add", "addcmd"} /\ op'.arg[1] \notin MetricNames(metrics)
                 THEN Append(order, op'.arg[1])
                 ELSE IF op'.name = "remove"
                 THEN SelectSeq(order, LAMBDA n : n # op'.arg[1])
                 ELSE order
    /\ deferred' = IF Births(out') # <<>> THEN {}
                    ELSE IF /\ op'.name = "set"
                            /\ op'.arg[1] \in MetricNames(metrics)
                            /\ ~AreValuesEqual(op'.arg[2], Lookup(metrics, op'.arg[1]).value)
                            /\ ~established
                    THEN deferred \cup {op'.arg[1]}
                    ELSE IF op'.name = "remove" THEN deferred \ {op'.arg[1]}
                    ELSE deferred
    /\ bornBd' = IF ~established' THEN None
                  ELSE IF Births(out') # <<>> THEN BdSeqOf(Last(Births(out')))
                  ELSE bornBd
    /\ scn' = ScnNext

\* a call that creates no task
Observe == Record /\ UNCHANGED <<codec, keepAlive>>

(***************************************************************************)
(* __init__: the node after construction on a bdSeq file.                  *)
(***************************************************************************)
InitialMetrics == <<[name |-> Rebirth, datatype |-> Boolean, value |-> BoolV(FALSE)]>>

\* The payload builder before any use of it.  concat is whether the
\* interpreter running the package concatenates a str to a bytes object
\* (payload.py line 360 does so) or raises TypeError.
IdleCodec(concat) ==
    [concat |-> concat, fn |-> "none", datatype |-> None, arg |-> NoneV,
     metric |-> <<>>, res |-> Returns(NoneV)]

InitOn(files) ==
    /\ hostId \in BOOLEAN
    /\ slot \in files
    /\ connected = FALSE
    /\ established = FALSE
    /\ prevMsg = NoMsg
    /\ bdSeq = LoadBdSeq(slot)
    /\ seq = 0
    /\ metrics = InitialMetrics
    /\ commands = [n \in Names |-> IF n = Rebirth THEN RebirthCallback ELSE NoCallback]
    /\ will = <<>>
    /\ brokerWill = <<>>
    /\ subs = {}
    /\ op = Call("init", <<>>)
    /\ out = <<>>
    /\ raised = FALSE
    /\ connects = 0
    /\ calls = <<>>
    /\ invoked = <<>>
    /\ lastBirthBd = None
    /\ okWillBd = None
    /\ lastOkBd = None
    /\ lastSeqPub = None
    /\ awaiting = FALSE
    /\ latest = [n \in Names |-> IF n = Rebirth THEN BoolV(FALSE) ELSE None]
    /\ order = <<Rebirth>>
    /\ deferred = {}
    /\ bornBd = None
    /\ scn = NoScn
    /\ pre = Snapshot

\* the bdSeq file is missing, or holds the last value the node wrote
InitNode == InitOn({None, 255})

\* the tasks of a client with the given keep-alive interval, before connect()
KeepAliveOf(interval) == [interval |-> interval, tasks |-> 0, beat |-> FALSE]
\* connect(): one more _keep_alive task when client.keepalive > 0
StartKeepAlive(k) == IF k.interval > 0 THEN [k EXCEPT !.tasks = @ + 1] ELSE k

Init == InitNode /\ codec = IdleCodec(TRUE) /\ keepAlive = KeepAliveOf(0)

(***************************************************************************)
(* connect(): ok is whether client.connect() returns (TRUE) or raises.     *)
(***************************************************************************)
Connect(ok) ==
    /\ connects' = connects + 1
    /\ op' = Call("connect", <<ok>>)
    /\ bdSeq' = IncrementBdSeq(bdSeq)
    /\ will' = <<NDeathMsg(bdSeq')>>
    /\ IF ok
       THEN /\ connected' = TRUE
            /\ slot' = bdSeq'
            /\ brokerWill' = will'
            /\ subs' = {"NCMD"} \cup (IF hostId THEN {"STATE"} ELSE {})
            /\ raised' = FALSE
            /\ IF hostId
               THEN /\ out' = <<>>
                    /\ UNCHANGED <<established, seq>>
               ELSE /\ established' = TRUE
                    /\ out' = <<NBirthMsg(seq, bdSeq', metrics)>>
                    /\ seq' = IncrementSeq(seq)
       ELSE /\ raised' = TRUE
            /\ out' = <<>>
            /\ UNCHANGED <<connected, slot, brokerWill, subs, established, seq>>
    /\ calls' = <<"set_last_will", "set_callback", "connect">>
                 \o (IF ok THEN <<"subscribe">> \o (IF hostId THEN <<"subscribe">>
                                                              ELSE <<"publish">>)
                           ELSE <<>>)
    /\ invoked' = <<>>
    /\ keepAlive' = IF ok THEN StartKeepAlive(keepAlive) ELSE keepAlive
    /\ UNCHANGED <<hostId, prevMsg, metrics, commands, codec>>
    /\ Record

(***************************************************************************)
(* disconnect().  client.disconnect() on a transport that is not open      *)
(* either returns or raises, as the MQTT client decides; when it raises,   *)
(* the assignment of self.connected after it is not reached.               *)
(***************************************************************************)
\* the transport is closed before the death certificate is published
DisconnectCallsReversed(isEstablished) ==
    IF isEstablished THEN <<"disconnect", "publish">> ELSE <<"disconnect">>
DisconnectCalls(isEstablished) ==
    IF isEstablished THEN <<"publish", "disconnect">> ELSE <<"disconnect">>

Disconnect ==
    /\ op' = Call("disconnect", <<>>)
    /\ IF established
       THEN /\ established' = FALSE
            /\ out' = <<NDeathMsg(bdSeq)>>
       ELSE /\ out' = <<>>
            /\ UNCHANGED established
    /\ calls' = DisconnectCalls(established)
    /\ invoked' = <<>>
    /\ \E returns \in (IF brokerWill = <<>> THEN BOOLEAN ELSE {TRUE}) :
          /\ raised' = ~returns
          /\ connected' = IF returns THEN FALSE ELSE connected
    /\ brokerWill' = <<>>
    /\ subs' = {}
    /\ UNCHANGED <<hostId, prevMsg, bdSeq, seq, metrics, commands, slot, will, connects>>
    /\ Observe

(***************************************************************************)
(* _handle_msg on the primary host's STATE topic, with a well-formed       *)
(* payload {timestamp, online}.                                            *)
(***************************************************************************)
HostStateMsg(timestamp, online) ==
    /\ "STATE" \in subs
    /\ op' = Call("state", <<timestamp, online>>)
    /\ raised' = FALSE
    /\ IF Accepts(prevMsg, timestamp)
       THEN /\ prevMsg' = <<timestamp, online>>
            /\ IF Transition(online, established) = "establish"
               THEN /\ established' = TRUE
                    /\ out' = <<NBirthMsg(seq, bdSeq, metrics)>>
                    /\ seq' = IncrementSeq(seq)
               ELSE IF Transition(online, established) = "terminate"
               THEN /\ established' = FALSE
                    /\ out' = <<NDeathMsg(bdSeq)>>
                    /\ UNCHANGED seq
               ELSE /\ out' = <<>>
                    /\ UNCHANGED <<established, seq>>
       ELSE /\ out' = <<>>
            /\ UNCHANGED <<prevMsg, established, seq>>
    /\ calls' = Publishes(out')
    /\ invoked' = <<>>
    /\ UNCHANGED <<hostId, connected, bdSeq, metrics, commands, env, connects>>
    /\ Observe

(***************************************************************************)
(* _handle_msg as the MQTT client calls it, for any topic and payload.     *)
(* The topic is compared with the NCMD topic and then with what            *)
(* _get_primary_host_application_state_topic returns, which for a node     *)
(* without a host id is the f-string formatted with None.  A payload is    *)
(* a well-formed host state {timestamp, online}, or bytes that neither     *)
(* decoder accepts, or a JSON object without one of the two keys; the      *)
(* exception a decoder or a key lookup raises is caught by the handler.    *)
(***************************************************************************)
NcmdTopic == "spBv1.0/group/NCMD/node"
HostStateTopic == "spBv1.0/STATE/host"
NoneStateTopic == "spBv1.0/STATE/None"
OtherTopic == "spBv1.0/group/NDATA/other"
Topics == {NcmdTopic, HostStateTopic, NoneStateTopic, OtherTopic}
GetStateTopic(hasHostId) == IF hasHostId THEN HostStateTopic ELSE NoneStateTopic

StateBody(timestamp, online) ==
    [kind |-> "state", timestamp |-> timestamp, online |-> online]
MalformedBody(kind) == [kind |-> kind, timestamp |-> 0, online |-> FALSE]
MalformedKinds == {"unparsable", "no_timestamp", "no_online"}

HandleMsg(topic, body) ==
    /\ "NCMD" \in subs
    /\ topic = NcmdTopic => body.kind = "unparsable"
    /\ op' = Call("msg", <<topic, body>>)
    /\ raised' = FALSE
    /\ IF topic # NcmdTopic /\ topic = GetStateTopic(hostId) /\ body.kind = "state"
       THEN IF Accepts(prevMsg, body.timestamp)
            THEN /\ prevMsg' = <<body.timestamp, body.online>>
                 /\ IF Transition(body.online, established) = "establish"
                    THEN /\ established' = TRUE
                         /\ out' = <<NBirthMsg(seq, bdSeq, metrics)>>
                         /\ seq' = IncrementSeq(seq)
                    ELSE IF Transition(body.online, established) = "terminate"
                    THEN /\ established' = FALSE
                         /\ out' = <<NDeathMsg(bdSeq)>>
                         /\ UNCHANGED seq
                    ELSE /\ out' = <<>>
                         /\ UNCHANGED <<established, seq>>
            ELSE /\ out' = <<>>
                 /\ UNCHANGED <<prevMsg, established, seq>>
       ELSE /\ out' = <<>>
            /\ UNCHANGED <<prevMsg, established, seq>>
    /\ calls' = Publishes(out')
    /\ invoked' = <<>>
    /\ UNCHANGED <<hostId, connected, bdSeq, metrics, commands, env, connects>>
    /\ Observe

(***************************************************************************)
(* The same handler when client.publish raises: the flag is already        *)
(* assigned, the increment of seq after the publish is not reached, and    *)
(* _handle_msg catches the exception.                                      *)
(***************************************************************************)
HostStateMsgPublishFails(timestamp, online) ==
    /\ "STATE" \in subs
    /\ IF Accepts(prevMsg, timestamp)
       THEN Transition(online, established) # "none"
       ELSE FALSE
    /\ op' = Call("state", <<timestamp, online>>)
    /\ raised' = FALSE
    /\ prevMsg' = <<timestamp, online>>
    /\ established' = (Transition(online, established) = "establish")
    /\ out' = <<>>
    /\ calls' = <<"publish">>
    /\ invoked' = <<>>
    /\ UNCHANGED <<hostId, connected, bdSeq, seq, metrics, commands, env, connects>>
    /\ Observe

(***************************************************************************)
(* connect() without a host id when the transport connect succeeds and     *)
(* the client.publish of the NBIRTH raises: the exception reaches the      *)
(* caller of connect().                                                    *)
(***************************************************************************)
ConnectPublishFails ==
    /\ ~hostId
    /\ connects' = connects + 1
    /\ op' = Call("connect", <<TRUE>>)
    /\ bdSeq' = IncrementBdSeq(bdSeq)
    /\ will' = <<NDeathMsg(bdSeq')>>
    /\ connected' = TRUE
    /\ slot' = bdSeq'
    /\ brokerWill' = will'
    /\ subs' = {"NCMD"}
    /\ established' = TRUE
    /\ out' = <<>>
    /\ raised' = TRUE
    /\ calls' = <<"set_last_will", "set_callback", "connect", "subscribe", "publish">>
    /\ invoked' = <<>>
    /\ keepAlive' = StartKeepAlive(keepAlive)
    /\ UNCHANGED <<hostId, prevMsg, seq, metrics, commands, codec>>
    /\ Record

(***************************************************************************)
(* One turn of a _keep_alive task: it resumes after asyncio.sleep, tests   *)
(* self.connected and calls client.ping(); there is no await between the   *)
(* test and the ping.  The task is never cancelled.                        *)
(***************************************************************************)
\* a ping whatever the flag says
PingsAlways(isConnected) == <<"ping">>
Pings(isConnected) == IF isConnected THEN <<"ping">> ELSE <<>>

KeepAlive ==
    /\ keepAlive.tasks > 0
    /\ op' = Call("wake", <<>>)
    /\ raised' = FALSE
    /\ out' = <<>>
    /\ calls' = Pings(connected)
    /\ invoked' = <<>>
    /\ keepAlive' = [keepAlive EXCEPT !.beat = ~@]
    /\ UNCHANGED <<node, env, connects, codec>>
    /\ Record

(***************************************************************************)
(* _handle_msg on the NCMD topic.  The message is the list of metric       *)
(* dicts the decoder returns; every dict has every field of the schema.    *)
(* An exception raised while a metric is handled ends the loop and is      *)
(* caught and printed by _handle_msg.                                      *)
(***************************************************************************)
HasCommand(c, name) == name \in DOMAIN c /\ c[name] # NoCallback
\* every value taken for true
TruthyAlways(v) == TRUE
\* Python truth value
Truthy(v) ==
    CASE v.kind = "none" -> FALSE
      [] v.kind \in {"bool", "int", "float"} -> v.num # 0
      [] v.kind = "list" -> v.items # <<>>
      [] OTHER -> TRUE

\* The loop of _handle_ncmd_msg from metric i on; st is what the loop has
\* done so far: the callbacks invoked, the messages published, seq.
RECURSIVE HandleNcmd(_, _, _)
HandleNcmd(msg, i, st) ==
    IF i > Len(msg) THEN st
    ELSE
      LET metric == msg[i]
          name == metric["name"].text
          stored == IF name \in MetricNames(metrics) THEN Lookup(metrics, name).datatype
                    ELSE None
          got == GetMetricValue(metric, stored)
          called == [st EXCEPT !.invoked =
                       Append(@, [index |-> i, name |-> name,
                                  callback |-> commands[name], value |-> got.value])]
      IN  IF got.raises THEN st
          ELSE IF ~HasCommand(commands, name) THEN HandleNcmd(msg, i + 1, st)
          ELSE IF commands[name] = RebirthCallback
          THEN IF Truthy(got.value) /\ established
               THEN HandleNcmd(msg, i + 1,
                               [called EXCEPT !.out = Append(@, NBirthMsg(st.seq, bdSeq, metrics)),
                                              !.seq = IncrementSeq(@)])
               ELSE HandleNcmd(msg, i + 1, called)
          ELSE IF commands[name] = "cbRaises" THEN called
          ELSE HandleNcmd(msg, i + 1, called)

NcmdMsg(msg) ==
    /\ "NCMD" \in subs
    /\ op' = Call("ncmd", msg)
    /\ raised' = FALSE
    /\ LET st == HandleNcmd(msg, 1, [invoked |-> <<>>, out |-> <<>>, seq |-> seq])
       IN  /\ invoked' = st.invoked
           /\ out' = st.out
           /\ seq' = st.seq
    /\ calls' = Publishes(out')
    /\ UNCHANGED <<hostId, connected, established, prevMsg, bdSeq, metrics, commands, env,
                   connects>>
    /\ Observe

(***************************************************************************)
(* set_metric_value(name, value)                                           *)
(***************************************************************************)
SetMetricValue(name, value) ==
    /\ op' = Call("set", <<name, value>>)
    /\ raised' = FALSE
    /\ IF name \notin MetricNames(metrics)
       THEN /\ out' = <<>>
            /\ UNCHANGED <<metrics, seq>>
       ELSE IF AreValuesEqual(value, Lookup(metrics, name).value)
       THEN /\ out' = <<>>
            /\ UNCHANGED <<metrics, seq>>
       ELSE /\ metrics' = WithValue(metrics, name, value)
            /\ IF established
               THEN /\ out' = <<NDataMsg(seq, metrics', <<name>>)>>
                    /\ seq' = IncrementSeq(seq)
               ELSE /\ out' = <<>>
                    /\ UNCHANGED seq
    /\ calls' = Publishes(out')
    /\ invoked' = <<>>
    /\ UNCHANGED <<hostId, connected, established, prevMsg, bdSeq, commands, env, connects>>
    /\ Observe

(***************************************************************************)
(* add_data_metric(name, datatype, value)                                  *)
(***************************************************************************)
AddDataMetric(name, datatype, value) ==
    /\ op' = Call("add", <<name, datatype, value>>)
    /\ raised' = FALSE
    /\ IF name \in MetricNames(metrics)
       THEN /\ out' = <<>>
            /\ UNCHANGED <<metrics, seq>>
       ELSE /\ metrics' = Append(metrics, [name |-> name, datatype |-> datatype,
                                           value |-> value])
            /\ IF established
               THEN /\ out' = <<NBirthMsg(seq, bdSeq, metrics')>>
                    /\ seq' = IncrementSeq(seq)
               ELSE /\ out' = <<>>
                    /\ UNCHANGED seq
    /\ calls' = Publishes(out')
    /\ invoked' = <<>>
    /\ UNCHANGED <<hostId, connected, established, prevMsg, bdSeq, commands, env, connects>>
    /\ Observe

(***************************************************************************)
(* add_command_metric(name, datatype, value, callback): the callback is    *)
(* registered, then add_data_metric runs.                                  *)
(***************************************************************************)
AddCommandMetric(name, datatype, value, callback) ==
    /\ op' = Call("addcmd", <<name, datatype, value, callback>>)
    /\ raised' = FALSE
    /\ commands' = [commands EXCEPT ![name] = callback]
    /\ IF name \in MetricNames(metrics)
       THEN /\ out' = <<>>
            /\ UNCHANGED <<metrics, seq>>
       ELSE /\ metrics' = Append(metrics, [name |-> name, datatype |-> datatype,
                                           value |-> value])
            /\ IF established
               THEN /\ out' = <<NBirthMsg(seq, bdSeq, metrics')>>
                    /\ seq' = IncrementSeq(seq)
               ELSE /\ out' = <<>>
                    /\ UNCHANGED seq
    /\ calls' = Publishes(out')
    /\ invoked' = <<>>
    /\ UNCHANGED <<hostId, connected, established, prevMsg, bdSeq, env, connects>>
    /\ Observe

(***************************************************************************)
(* remove_metric(name)                                                     *)
(***************************************************************************)
RemoveMetric(name) ==
    /\ op' = Call("remove", <<name>>)
    /\ raised' = FALSE
    /\ IF name \notin MetricNames(metrics)
       THEN /\ out' = <<>>
            /\ UNCHANGED <<metrics, commands, seq>>
       ELSE /\ metrics' = Without(metrics, name)
            /\ commands' = [commands EXCEPT ![name] = NoCallback]
            /\ IF established
               THEN /\ out' = <<NBirthMsg(seq, bdSeq, metrics')>>
                    /\ seq' = IncrementSeq(seq)
               ELSE /\ out' = <<>>
                    /\ UNCHANGED seq
    /\ calls' = Publishes(out')
    /\ invoked' = <<>>
    /\ UNCHANGED <<hostId, connected, established, prevMsg, bdSeq, env, connects>>
    /\ Observe

(***************************************************************************)
(* The session specification: every call, with one metric name.            *)
(***************************************************************************)
Next ==
    \/ \E ok \in BOOLEAN : connects < MaxConnects /\ seq < MaxSeq /\ Connect(ok)
    \/ Disconnect
    \/ \E timestamp \in Timestamps, online \in BOOLEAN :
          seq < MaxSeq /\ HostStateMsg(timestamp, online)
    \/ \E value \in {BoolV(FALSE), BoolV(TRUE)} :
          seq < MaxSeq /\ SetMetricValue(Rebirth, value)
    \/ seq < MaxSeq /\ AddDataMetric(Rebirth, Boolean, BoolV(FALSE))
    \/ seq < MaxSeq /\ RemoveMetric(Rebirth)

Spec == Init /\ [][Next]_vars

(***************************************************************************)
(* The long-run specification: every call with no bound on the publishes,  *)
(* so that seq runs through all of its values and wraps.  connect() is     *)
(* called on a node that is not connected.                                 *)
(***************************************************************************)
InitMetrics == Init /\ slot = None

NextWrap ==
    \/ \E ok \in BOOLEAN : connects < MaxConnectsM /\ ~connected /\ Connect(ok)
    \/ Disconnect
    \/ \E timestamp \in {50, 100}, online \in BOOLEAN : HostStateMsg(timestamp, online)
    \/ \E value \in {BoolV(FALSE), BoolV(TRUE)} : SetMetricValue(Rebirth, value)
    \/ AddDataMetric(Rebirth, Boolean, BoolV(FALSE))
    \/ RemoveMetric(Rebirth)

SpecWrap == InitMetrics /\ [][NextWrap]_vars

(***************************************************************************)
(* The metric-store specification: two metric names, each registered with  *)
(* a datatype of its own, values of both kinds, one transport session.     *)
(***************************************************************************)
NextMetrics ==
    \/ connects < MaxConnectsM /\ seq < MaxSeqM /\ Connect(TRUE)
    \/ Disconnect
    \/ \E online \in BOOLEAN : seq < MaxSeqM /\ HostStateMsg(100, online)
    \/ \E name \in Names, value \in Values :
          seq < MaxSeqM /\ SetMetricValue(name, value)
    \/ \E nm \in NewMetrics :
          seq < MaxSeqM /\ AddDataMetric(nm[1], nm[2], nm[3])
    \/ \E name \in Names : seq < MaxSeqM /\ RemoveMetric(name)

SpecMetrics == InitMetrics /\ [][NextMetrics]_vars

(***************************************************************************)
(* The command specification: metrics and command metrics are added and    *)
(* removed, and NCMD messages arrive.                                      *)
(***************************************************************************)
\* decoded NCMD metrics: one for "a", one for Rebirth, one without a datatype
\* tag, one whose array bytes are missing, one with a datatype that has no
\* value field, one for a name that was never registered
CmdA == MetricDict("a", Double, "double_value", FloatV(2000000))
CmdRebirth == MetricDict(Rebirth, Boolean, "boolean_value", BoolV(TRUE))
CmdRebirthFalse == MetricDict(Rebirth, Boolean, "boolean_value", BoolV(FALSE))
CmdNoTag == MetricDict("a", None, "double_value", FloatV(2000000))
CmdMalformed == MetricDict("a", BooleanArray, "bytes_value", NoneV)
CmdUnknownType == MetricDict("a", Template, "double_value", FloatV(2000000))
CmdUnregistered == MetricDict("x", Boolean, "boolean_value", BoolV(TRUE))
NcmdMsgs ==
    {<<CmdRebirth>>, <<CmdRebirthFalse>>, <<CmdA, CmdRebirth>>, <<CmdNoTag>>, <<CmdMalformed, CmdRebirth>>,
     <<CmdUnknownType, CmdRebirth>>, <<CmdUnregistered, CmdRebirth>>}

NextCmd ==
    \/ connects < MaxConnectsM /\ seq < MaxSeqM /\ Connect(TRUE)
    \/ Disconnect
    \/ \E online \in BOOLEAN : seq < MaxSeqM /\ HostStateMsg(100, online)
    \/ \E name \in Names : seq < MaxSeqM /\ SetMetricValue(name, BoolV(TRUE))
    \/ \E nm \in NewMetrics : seq < MaxSeqM /\ AddDataMetric(nm[1], nm[2], nm[3])
    \/ \E nm \in NewMetrics, callback \in Callbacks :
          seq < MaxSeqM /\ AddCommandMetric(nm[1], nm[2], nm[3], callback)
    \/ \E name \in Names : seq < MaxSeqM /\ RemoveMetric(name)
    \/ \E msg \in NcmdMsgs : seq < MaxSeqM /\ NcmdMsg(msg)

SpecCmd == InitMetrics /\ [][NextCmd]_vars

(***************************************************************************)
(* The counter specification: the node is constructed on any file the node *)
(* can have written.                                                       *)
(***************************************************************************)
Files == {None} \cup 0..255
InitCounters == InitOn(Files) /\ codec = IdleCodec(TRUE) /\ keepAlive = KeepAliveOf(0)

NextCounters ==
    \/ \E ok \in BOOLEAN : connects < MaxConnectsM /\ seq < MaxSeqM /\ Connect(ok)
    \/ Disconnect
    \/ \E online \in BOOLEAN : seq < MaxSeqM /\ HostStateMsg(100, online)

SpecCounters == InitCounters /\ [][NextCounters]_vars

(***************************************************************************)
(* The failing-transport specification: client.publish may raise when the  *)
(* session is established or terminated.                                   *)
(***************************************************************************)
NextFail ==
    \/ connects < MaxConnectsM /\ seq < MaxSeqM /\ Connect(TRUE)
    \/ connects < MaxConnectsM /\ ConnectPublishFails
    \/ Disconnect
    \/ \E online \in BOOLEAN : seq < MaxSeqM /\ HostStateMsg(100, online)
    \/ \E online \in BOOLEAN : HostStateMsgPublishFails(100, online)
    \/ \E value \in {BoolV(FALSE), BoolV(TRUE)} :
          seq < MaxSeqM /\ SetMetricValue(Rebirth, value)

SpecFail == InitMetrics /\ [][NextFail]_vars

(***************************************************************************)
(* The inbound-message specification: messages of every kind arrive on     *)
(* every topic while the transport is open.                                *)
(***************************************************************************)
Bodies ==
    {StateBody(100, online) : online \in BOOLEAN}
        \cup {MalformedBody(kind) : kind \in MalformedKinds}

NextMsg ==
    \/ connects < MaxConnectsM /\ seq < MaxSeqM /\ Connect(TRUE)
    \/ Disconnect
    \/ \E online \in BOOLEAN : seq < MaxSeqM /\ HostStateMsg(50, online)
    \/ \E value \in {BoolV(FALSE), BoolV(TRUE)} :
          seq < MaxSeqM /\ SetMetricValue(Rebirth, value)
    \/ \E topic \in Topics, body \in Bodies : seq < MaxSeqM /\ HandleMsg(topic, body)

SpecMsg == InitMetrics /\ [][NextMsg]_vars

(***************************************************************************)
(* The keep-alive specification: the client's keep-alive interval is 0 or  *)
(* positive, the application connects, disconnects and connects again,     *)
(* data and host-state traffic flows, and the scheduler runs a keep-alive  *)
(* task that is ready (asyncio runs every ready task in turn).             *)
(***************************************************************************)
MaxConnectsK == 2
KeepAliveSecs == 60

InitKeepAlive ==
    /\ InitNode /\ slot = None
    /\ codec = IdleCodec(TRUE)
    /\ keepAlive \in {KeepAliveOf(interval) : interval \in {0, KeepAliveSecs}}

NextKeepAlive ==
    \/ \E ok \in BOOLEAN : connects < MaxConnectsK /\ seq < MaxSeqM /\ Connect(ok)
    \/ Disconnect
    \/ \E online \in BOOLEAN : seq < MaxSeqM /\ HostStateMsg(100, online)
    \/ seq < MaxSeqM /\ SetMetricValue(Rebirth, BoolV(TRUE))
    \/ KeepAlive

SpecKeepAlive == InitKeepAlive /\ [][NextKeepAlive]_vars /\ WF_vars(KeepAlive)

(***************************************************************************)
(* The payload-builder specification: _Payload.add_metric builds an array  *)
(* metric and _get_metric_value reads the value back from that metric.     *)
(***************************************************************************)
MaxBools == 9
MaxStrings == 2
MaxChars == 2
\* 'a' and e-acute
Chars == {97, 233}
BoolArrays == UNION {[1..n -> BOOLEAN] : n \in 0..MaxBools}
Strings == UNION {[1..n -> Chars] : n \in 0..MaxChars}
StringArrays == UNION {[1..n -> Strings] : n \in 0..MaxStrings}

AddThenGet(datatype, value) ==
    /\ codec.fn = "none"
    /\ codec' =
         IF datatype = StringArray /\ ~codec.concat
         THEN [codec EXCEPT !.fn = "add_metric", !.datatype = datatype, !.arg = value,
                            !.res = Raises]
         ELSE LET ms == AddMetric(<<>>, "x", datatype, value)
              IN  [codec EXCEPT !.fn = "get_metric_value", !.datatype = datatype,
                                !.arg = value, !.metric = ms,
                                !.res = GetMetricValue(
                                           MetricDict(ms[1].name, ms[1].datatype,
                                                      ms[1].slot, ms[1].value), None)]
    /\ UNCHANGED <<node, env, obs, mon, keepAlive>>

InitCodec ==
    /\ InitNode /\ ~hostId /\ slot = None
    /\ codec \in {IdleCodec(concat) : concat \in BOOLEAN}
    /\ keepAlive = KeepAliveOf(0)

NextCodec ==
    \/ codec.fn = "none" /\ \E value \in BoolArrays :
          AddThenGet(BooleanArray, ListV(value))
    \/ codec.fn = "none" /\ \E value \in StringArrays :
          AddThenGet(StringArray, ListV(value))

SpecCodec == InitCodec /\ [][NextCodec]_vars

(***************************************************************************)
(* Vocabulary of the properties: the call just made, seen from the state   *)
(* it left (pre is the node when the call began).                          *)
(***************************************************************************)
IsState == op.name = "state"
Stale == IsState /\ pre.prevMsg # NoMsg /\ op.arg[1] < pre.prevMsg[1]
Accepted == IsState /\ (pre.prevMsg = NoMsg \/ op.arg[1] >= pre.prevMsg[1])
Tie == IsState /\ pre.prevMsg # NoMsg /\ pre.prevMsg = <<op.arg[1], op.arg[2]>>
ConnectOk == op.name = "connect" /\ op.arg[1]
ConnectFailed == op.name = "connect" /\ ~op.arg[1]
NoEffectOnSession == out = <<>> /\ established = pre.established
BdSeqMetric(b) ==
    [name |-> "bdSeq", datatype |-> 4, slot |-> "long_value", value |-> IntV(b)]
\* msg carries b as bdSeq and then every entry of store m, in m's order
CarriesStore(msg, b, m) ==
    /\ Len(msg.payload.metrics) = Len(m) + 1
    /\ msg.payload.metrics[1] = BdSeqMetric(b)
    /\ \A i \in 1..Len(m) :
         /\ msg.payload.metrics[i + 1].name = m[i].name
         /\ msg.payload.metrics[i + 1].datatype = m[i].datatype
         /\ msg.payload.metrics[i + 1].value = m[i].value
\* report by exception, as the specification words it
SameNumber(v, w) == v.num = w.num
MateriallyDifferent(v, w) ==
    /\ v.num # w.num
    /\ ~(v.kind = "float" /\ w.kind = "float" /\ Abs(v.num - w.num) < 10)

(***************************************************************************)
(* C1.  A STATE message older than the last accepted one is ignored: the   *)
(* stored (timestamp, online) pair, the established flag and seq keep      *)
(* their values and nothing is published.                                  *)
(***************************************************************************)
C1_StaleIgnored ==
    Stale => /\ prevMsg = pre.prevMsg
             /\ established = pre.established
             /\ seq = pre.seq
             /\ out = <<>>

\* C1 as stated: stale messages are ignored, and the sequence (100,T),(50,F),
\* (200,F) delivered to any connected, not established node emits exactly one
\* NBIRTH and one NDEATH overall.
C1_Original ==
    /\ C1_StaleIgnored
    /\ scn.step = 3 => scn.births = 1 /\ scn.deaths = 1

\* C1 as amended: stale messages are ignored, and the sequence delivered to a
\* connected, not established node that has accepted no STATE message newer
\* than t=100 emits exactly one NBIRTH (at t=100) and one NDEATH (at t=200).
C1_Amended ==
    /\ C1_StaleIgnored
    /\ scn.fresh =>
         /\ scn.step \in {1, 2} => scn.births = 1 /\ scn.deaths = 0
         /\ scn.step = 3 => scn.births = 1 /\ scn.deaths = 1

\* the whole sequence was delivered, its second message being stale
C1_Witness == scn.step = 3 /\ scn.fresh /\ pre.prevMsg = <<100, TRUE>> /\ Deaths(out) # <<>>

(***************************************************************************)
(* C2.  An accepted online=true message to a node that is not established  *)
(* publishes exactly one NBIRTH with the whole metric store, seq and bdSeq, *)
(* sets established and adds one to seq; an accepted online=false message  *)
(* to an established node publishes exactly one NDEATH at QoS 1, clears     *)
(* established and leaves seq alone.                                       *)
(***************************************************************************)
C2_EstablishTerminate ==
    /\ (Accepted /\ op.arg[2] /\ ~pre.established) =>
         /\ Len(out) = 1
         /\ out[1].topic = "NBIRTH"
         /\ out[1].payload.seq = pre.seq
         /\ CarriesStore(out[1], pre.bdSeq, pre.metrics)
         /\ established
         /\ seq = (pre.seq + 1) % 256
    /\ (Accepted /\ ~op.arg[2] /\ pre.established) =>
         /\ Len(out) = 1
         /\ out[1].topic = "NDEATH"
         /\ out[1].qos = 1
         /\ ~established
         /\ seq = pre.seq

\* a session established by the host going online is ended by it going offline
C2_Witness ==
    /\ Accepted /\ ~op.arg[2] /\ pre.established /\ pre.prevMsg[2]
    /\ Deaths(out) # <<>>

(***************************************************************************)
(* C3.  Every NBIRTH published after a successful connect() carries the   *)
(* bdSeq of the last will that connect() registered, the will is in place  *)
(* before the transport connect is attempted (so also when it raises), and *)
(* every NDEATH published by the node carries the bdSeq of the most recent *)
(* NBIRTH.                                                                 *)
(***************************************************************************)
C3_BirthDeathCorrelated ==
    /\ \A i \in 1..Len(out) :
         (out[i].topic = "NBIRTH" /\ okWillBd # None) => BdSeqOf(out[i]) = okWillBd
    /\ op.name = "connect" => will # <<>> /\ BdSeqOf(will[1]) = bdSeq
    /\ \A i \in 1..Len(out) :
         out[i].topic = "NDEATH" => BdSeqOf(out[i]) = lastBirthBd

(***************************************************************************)
(* C4.  The bdSeq of each successfully connected session is the bdSeq of   *)
(* the previous successfully connected session plus one (mod 256), also    *)
(* when connect() calls failed in between.                                 *)
(***************************************************************************)
C4_OnePerSuccessfulConnect ==
    (ConnectOk /\ pre.lastOkBd # None) => bdSeq = (pre.lastOkBd + 1) % 256

(***************************************************************************)
(* C5.  After a successful connect() with a primary host id the node is    *)
(* not established and publishes no NBIRTH or NDATA until an online=true   *)
(* STATE message is accepted; without a host id connect() publishes        *)
(* exactly one NBIRTH and leaves the node established; NCMD is subscribed  *)
(* in both cases and STATE only with a host id.                            *)
(***************************************************************************)
C5_AwaitsHostAfterConnect ==
    /\ awaiting => ~established /\ Seqed(out) = <<>>
    /\ (ConnectOk /\ ~hostId) =>
         established /\ Len(out) = 1 /\ out[1].topic = "NBIRTH"
    /\ ConnectOk => "NCMD" \in subs /\ ("STATE" \in subs <=> hostId)

(***************************************************************************)
(* C6.  Which accepted STATE messages establish or terminate the session.  *)
(***************************************************************************)
\* C6 as stated: an accepted message changes the session only when its online
\* flag differs from the previously accepted one, and an accepted message that
\* repeats the last accepted (timestamp, online) pair does nothing.
C6_Original ==
    /\ (Accepted /\ pre.prevMsg # NoMsg /\ ~NoEffectOnSession) =>
         op.arg[2] # pre.prevMsg[2]
    /\ (Accepted /\ Tie) => NoEffectOnSession

\* C6 as amended: an accepted message changes the session exactly when its
\* online flag differs from the established flag, and an accepted message that
\* repeats the last accepted pair does nothing when the established flag
\* still equals that online flag.
C6_Amended ==
    /\ Accepted => (~NoEffectOnSession <=> op.arg[2] # pre.established)
    /\ (Accepted /\ Tie /\ op.arg[2] = pre.established) => NoEffectOnSession

\* the last accepted online=true message is repeated to the established node
C6_Witness ==
    Accepted /\ Tie /\ op.arg[2] /\ pre.established /\ NoEffectOnSession

C8_PersistedOnConnect ==
    /\ ConnectOk => slot = bdSeq
    /\ connected => slot = bdSeq
    /\ ConnectFailed => raised /\ slot = pre.slot /\ ~connected
    /\ op.name = "init" => bdSeq = (IF slot = None THEN 0 ELSE slot)

(***************************************************************************)
(* C9.  On an established node, set_metric_value with a materially         *)
(* different value stores it and publishes exactly one NDATA holding only  *)
(* that metric, with the new value and the current seq, and adds one to    *)
(* seq; with a value equal to the stored one it publishes nothing and      *)
(* leaves the store and seq as they were.                                  *)
(***************************************************************************)
C9_ReportByException ==
    (op.name = "set" /\ op.arg[1] \in MetricNames(pre.metrics)) =>
        LET name == op.arg[1]
            value == op.arg[2]
            old == Lookup(pre.metrics, name)
        IN  /\ (pre.established /\ MateriallyDifferent(value, old.value)) =>
                 /\ Len(metrics) = Len(pre.metrics)
                 /\ \A i \in 1..Len(metrics) :
                      metrics[i] = IF pre.metrics[i].name = name
                                   THEN [name |-> name, datatype |-> old.datatype,
                                         value |-> value]
                                   ELSE pre.metrics[i]
                 /\ Len(out) = 1
                 /\ out[1].topic = "NDATA"
                 /\ out[1].payload.seq = pre.seq
                 /\ Len(out[1].payload.metrics) = 1
                 /\ out[1].payload.metrics[1].name = name
                 /\ out[1].payload.metrics[1].datatype = old.datatype
                 /\ out[1].payload.metrics[1].value = value
                 /\ seq = (pre.seq + 1) % 256
            /\ SameNumber(value, old.value) =>
                 out = <<>> /\ metrics = pre.metrics /\ seq = pre.seq

\* one of two stored metrics changes on an established node
C9_Witness ==
    /\ op.name = "set" /\ pre.established /\ Len(pre.metrics) = 2
    /\ Len(out) = 1 /\ out[1].topic = "NDATA"

(***************************************************************************)
(* C10.  On a node that is not established, set_metric_value with a        *)
(* changed value only stores it (nothing published, seq unchanged), and    *)
(* every NBIRTH carries, for every metric of the store, the value stored   *)
(* last, in the order the metrics were added.                              *)
(***************************************************************************)
C10_StoredThenBorn ==
    /\ ( /\ op.name = "set" /\ op.arg[1] \in MetricNames(pre.metrics)
         /\ ~pre.established
         /\ MateriallyDifferent(op.arg[2], Lookup(pre.metrics, op.arg[1]).value) ) =>
           /\ out = <<>>
           /\ seq = pre.seq
           /\ Lookup(metrics, op.arg[1]).value = op.arg[2]
           /\ op.arg[1] \in deferred
    /\ \A i \in 1..Len(out) : out[i].topic = "NBIRTH" =>
           /\ Len(out[i].payload.metrics) = Len(order) + 1
           /\ \A k \in 1..Len(order) :
                /\ out[i].payload.metrics[k + 1].name = order[k]
                /\ out[i].payload.metrics[k + 1].value = latest[order[k]]

\* an NBIRTH for a store that is not in name order, one of whose values was
\* stored while the node was not established
C10_Witness ==
    /\ Births(out) # <<>>
    /\ order = <<"a", Rebirth>>
    /\ pre.deferred # {}

(***************************************************************************)
(* C11.  On an established node every add_data_metric or                   *)
(* add_command_metric of a new name and every remove_metric of a stored    *)
(* name changes the store and publishes exactly one NBIRTH carrying the    *)
(* store as it is after the change, with the unchanged bdSeq and the       *)
(* current seq, and adds one to seq; on a node that is not established     *)
(* they change the store and publish nothing.                              *)
(***************************************************************************)
Rebirthed ==
    /\ bdSeq = pre.bdSeq
    /\ IF pre.established
       THEN /\ Len(out) = 1
            /\ out[1].topic = "NBIRTH"
            /\ out[1].payload.seq = pre.seq
            /\ CarriesStore(out[1], pre.bdSeq, metrics)
            /\ seq = (pre.seq + 1) % 256
       ELSE out = <<>> /\ seq = pre.seq

C11_SchemaChangeRebirths ==
    /\ (op.name \in {"add", "addcmd"} /\ op.arg[1] \notin MetricNames(pre.metrics)) =>
         /\ metrics = Append(pre.metrics, [name |-> op.arg[1], datatype |-> op.arg[2],
                                           value |-> op.arg[3]])
         /\ Rebirthed
    /\ (op.name = "remove" /\ op.arg[1] \in MetricNames(pre.metrics)) =>
         /\ metrics = SelectSeq(pre.metrics, LAMBDA m : m.name # op.arg[1])
         /\ Rebirthed

\* a command metric added to an established node: the NBIRTH carries bdSeq
\* and both metrics
C11_Witness ==
    /\ op.name = "addcmd" /\ pre.established /\ Len(pre.metrics) = 1
    /\ Len(out) = 1 /\ out[1].topic = "NBIRTH" /\ Len(out[1].payload.metrics) = 3

(***************************************************************************)
(* C12.  disconnect() on an established node publishes exactly one NDEATH  *)
(* and only then closes the transport, and leaves the node not established *)
(* and not connected; on a node that is not established it publishes       *)
(* nothing and changes nothing but the connected flag, and on a node that  *)
(* is neither established nor connected (never connected, or disconnected  *)
(* before) it changes nothing at all.                                      *)
(***************************************************************************)
C12_DisconnectIdempotent ==
    op.name = "disconnect" =>
        /\ pre.established =>
             /\ Len(out) = 1 /\ out[1].topic = "NDEATH"
             /\ calls = <<"publish", "disconnect">>
             /\ ~established /\ ~connected
        /\ ~pre.established =>
             /\ out = <<>>
             /\ calls = <<"disconnect">>
             /\ ~established
             /\ ~raised => ~connected
        /\ (~pre.established /\ ~pre.connected) => ~connected
        /\ prevMsg = pre.prevMsg /\ bdSeq = pre.bdSeq /\ seq = pre.seq
        /\ metrics = pre.metrics /\ commands = pre.commands /\ slot = pre.slot

(***************************************************************************)
(* C12 as stated: disconnect() on a node that is not established publishes *)
(* nothing and leaves the whole node state, the connected flag included,   *)
(* unchanged.                                                              *)
(***************************************************************************)
C12_Original ==
    (op.name = "disconnect" /\ ~pre.established) =>
        /\ out = <<>>
        /\ established = pre.established /\ connected = pre.connected
        /\ prevMsg = pre.prevMsg /\ bdSeq = pre.bdSeq /\ seq = pre.seq
        /\ metrics = pre.metrics /\ commands = pre.commands /\ slot = pre.slot

\* disconnect() ends a session that a successful connect() established
C12_Witness ==
    /\ op.name = "disconnect" /\ pre.established /\ pre.connected
    /\ Deaths(out) # <<>> /\ ~connected /\ ~raised

(***************************************************************************)
(* C13.  In an NCMD message every metric that names a registered command   *)
(* and whose value can be extracted has its callback invoked exactly once, *)
(* in message order, whatever happens to the other metrics of the message  *)
(* (missing array bytes, a datatype without a value field, an unregistered *)
(* name, a callback that raises).                                          *)
(***************************************************************************)
Extractable(metric) ==
    ~(/\ metric["datatype"].kind = "int"
      /\ metric["datatype"].num \in 22..34
      /\ metric["bytes_value"].kind # "bytes")

C13_SiblingsStillRun ==
    op.name = "ncmd" =>
        [i \in 1..Len(invoked) |-> invoked[i].index]
          = SelectSeq([k \in 1..Len(op.arg) |-> k],
                      LAMBDA k : /\ HasCommand(pre.commands, op.arg[k]["name"].text)
                                 /\ Extractable(op.arg[k]))

(***************************************************************************)
(* C14.  The value an NCMD metric hands to its callback is the content of  *)
(* the value field selected by the metric's own datatype tag, or, when the *)
(* tag is null, by the datatype the metric store holds for that name.      *)
(***************************************************************************)
C14_StoredDatatypeUsed ==
    op.name = "ncmd" =>
        \A i \in 1..Len(invoked) :
            LET metric == op.arg[invoked[i].index]
                name == invoked[i].name
            IN  /\ (metric["datatype"].kind = "none" /\ name \in MetricNames(pre.metrics)) =>
                     invoked[i].value = metric[WireSlot(Lookup(pre.metrics, name).datatype)]
                /\ (metric["datatype"].kind = "int" /\ metric["datatype"].num \in 1..15) =>
                     invoked[i].value = metric[WireSlot(metric["datatype"].num)]

(***************************************************************************)
(* C15.  set_metric_value or remove_metric on a name that is not in the    *)
(* store, and add_data_metric or add_command_metric on a name that is,     *)
(* publish nothing and leave the store, the command table, seq and bdSeq   *)
(* as they were; the names of the store are always distinct.               *)
(***************************************************************************)
C15_UsageErrorsSkipped ==
    /\ ( \/ op.name \in {"set", "remove"} /\ op.arg[1] \notin MetricNames(pre.metrics)
         \/ op.name \in {"add", "addcmd"} /\ op.arg[1] \in MetricNames(pre.metrics) ) =>
           /\ out = <<>>
           /\ metrics = pre.metrics
           /\ commands = pre.commands
           /\ seq = pre.seq
           /\ bdSeq = pre.bdSeq
    /\ Cardinality(MetricNames(metrics)) = Len(metrics)

(***************************************************************************)
(* C16.  set_metric_value leaves the store alone and publishes nothing     *)
(* exactly when the new value has the runtime kind of the stored value and *)
(* is equal to it, or both are floats less than 1e-5 apart; a value of     *)
(* another kind is stored (and published when established) even when the   *)
(* two are numerically equal.                                              *)
(***************************************************************************)
C16_EqualityByKind ==
    (op.name = "set" /\ op.arg[1] \in MetricNames(pre.metrics)) =>
        LET value == op.arg[2]
            old == Lookup(pre.metrics, op.arg[1]).value
            same == /\ value.kind = old.kind
                    /\ \/ value.num = old.num
                       \/ value.kind = "float" /\ Abs(value.num - old.num) < 10
        IN  /\ same => out = <<>> /\ metrics = pre.metrics
            /\ ~same => /\ Lookup(metrics, op.arg[1]).value = value
                        /\ pre.established => Len(out) = 1 /\ out[1].topic = "NDATA"

(***************************************************************************)
(* C17.  bdSeq and seq are in 0..255 in every state, the state after       *)
(* construction on a stored bdSeq included, and 256 increments take each   *)
(* counter back to the value it had.                                       *)
(***************************************************************************)
\* 256 = 2^8 applications of a function: doubling it eight times
Twice(f) == [x \in Nat |-> f[f[x]]]
Times256(f) == Twice(Twice(Twice(Twice(Twice(Twice(Twice(Twice(f))))))))
BdSeqAfter256 == Times256([x \in Nat |-> IncrementBdSeq(x)])
SeqAfter256 == Times256([x \in Nat |-> IncrementSeq(x)])

C17_CountersInRange ==
    /\ bdSeq \in 0..255
    /\ seq \in 0..255
    /\ \A x \in {bdSeq, seq} : BdSeqAfter256[x] = x /\ SeqAfter256[x] = x

\* a connect() on a node constructed on a file holding 255
C17_Witness ==
    op.name = "connect" /\ pre.bdSeq = 255 /\ pre.slot = 255 /\ bdSeq = 0

(***************************************************************************)
(* C18.  A list of NUL-free strings added as a StringArray metric gives a  *)
(* byte value holding, for every element in order, its UTF-8 bytes and a   *)
(* NUL, and the value read back from that metric is the list.              *)
(***************************************************************************)
RECURSIVE NulTerminated(_)
NulTerminated(value) ==
    IF value = <<>> THEN <<>>
    ELSE Utf8Encode(Head(value)) \o <<NUL>> \o NulTerminated(Tail(value))

C18_StringArrayRoundTrip ==
    (codec.fn # "none" /\ codec.datatype = StringArray) =>
        /\ ~codec.res.raises
        /\ codec.fn = "get_metric_value"
        /\ codec.metric[1].value.data = NulTerminated(codec.arg.items)
        /\ codec.res.value.items = codec.arg.items

(***************************************************************************)
(* C19.  A boolean sequence added as a BooleanArray metric gives a byte    *)
(* value made of the element count in 4 little-endian bytes and then       *)
(* ceil(n/8) bytes holding element i in bit 7 - ((i-1) mod 8) of byte      *)
(* (i-1) div 8, all other bits zero, and the value read back from that     *)
(* metric is the sequence.                                                 *)
(***************************************************************************)
C19_BooleanArrayRoundTrip ==
    (codec.fn # "none" /\ codec.datatype = BooleanArray) =>
        LET value == codec.arg.items
            n == Len(value)
            data == codec.metric[1].value.data
            bit(k, j) == (data[4 + k] \div (2 ^ (7 - j))) % 2
        IN  /\ ~codec.res.raises
            /\ Len(data) = 4 + ((n + 7) \div 8)
            /\ \A i \in 1..4 : data[i] = (n \div (256 ^ (i - 1))) % 256
            /\ \A k \in 1..((n + 7) \div 8) : \A j \in 0..7 :
                  bit(k, j) = IF 8 * (k - 1) + j + 1 <= n /\ value[8 * (k - 1) + j + 1]
                              THEN 1 ELSE 0
            /\ codec.res.value.items = value

\* the nine-element sequence T F T T F F F F T, whose bits fill one byte and
\* one bit of the next
C19_Witness ==
    /\ codec.fn = "get_metric_value" /\ codec.datatype = BooleanArray
    /\ codec.arg.items = <<TRUE, FALSE, TRUE, TRUE, FALSE, FALSE, FALSE, FALSE, TRUE>>
    /\ codec.metric[1].value.data = <<9, 0, 0, 0, 176, 128>>
    /\ codec.res.value.items = codec.arg.items

(***************************************************************************)
(* C20.  Whenever the node is established, an NBIRTH carrying the current  *)
(* bdSeq was published since the node was last not established, and no     *)
(* NDATA is published by a node for which that is not so; also when        *)
(* client.publish raises.                                                  *)
(***************************************************************************)
C20_EstablishedImpliesBorn ==
    /\ established => bornBd = bdSeq
    /\ (\E i \in 1..Len(out) : out[i].topic = "NDATA") => pre.bornBd = pre.bdSeq

(***************************************************************************)
(* C23.  On a node with a primary host id, whenever the session is         *)
(* established a host-state message has been accepted and the last         *)
(* accepted one has online = true.                                         *)
(***************************************************************************)
C23_EstablishedImpliesHostOnline ==
    (hostId /\ established) =>
        IF prevMsg = NoMsg THEN FALSE ELSE prevMsg[2]

\* an older offline message reaches an established node and is ignored
C23_Witness ==
    /\ hostId /\ established /\ op.name = "state"
    /\ ~op.arg[2] /\ op.arg[1] = 50
    /\ IF prevMsg = NoMsg THEN FALSE ELSE prevMsg = <<100, TRUE>>

(***************************************************************************)
(* C24.  The built-in command "Node Control/Rebirth".  An NCMD message     *)
(* holding the Rebirth metric alone, tagged Boolean with value true,       *)
(* received by an established node whose built-in callback is registered,  *)
(* publishes exactly one NBIRTH with sequence number seq, the unchanged    *)
(* bdSeq and every stored metric, and increments seq; the established flag *)
(* and the rest of the node state stay as they were.  With value false,    *)
(* or on a node that is not established, or after the built-in callback    *)
(* was removed by remove_metric, no NCMD message publishes anything or     *)
(* changes any state.  Whatever the message, an NCMD publishes nothing but *)
(* such NBIRTHs, one per increment of seq.                                 *)
(***************************************************************************)
NcmdLeavesStore ==
    /\ established = pre.established /\ connected = pre.connected
    /\ bdSeq = pre.bdSeq /\ prevMsg = pre.prevMsg
    /\ metrics = pre.metrics /\ commands = pre.commands /\ slot = pre.slot

C24_WitnessRemoved ==
    /\ op.name = "ncmd" /\ op.arg = <<CmdRebirth>> /\ pre.established
    /\ pre.commands[Rebirth] = NoCallback /\ out = <<>>

(***************************************************************************)
(* C21.  A message whose payload does not parse or lacks timestamp or      *)
(* online, or that arrives on a topic that is neither the NCMD topic nor   *)
(* the STATE topic of the configured primary host, raises nothing out of   *)
(* the handler, publishes nothing, and leaves established, seq, bdSeq, the *)
(* last accepted host state and the metric store unchanged.                *)
(***************************************************************************)
Malformed == op.arg[2].kind \in MalformedKinds
Unrecognized == op.arg[1] # NcmdTopic /\ ~(hostId /\ op.arg[1] = HostStateTopic)
Ignored ==
    /\ ~raised /\ out = <<>>
    /\ established = pre.established /\ seq = pre.seq /\ bdSeq = pre.bdSeq
    /\ prevMsg = pre.prevMsg /\ metrics = pre.metrics

C21_MalformedIgnored ==
    (op.name = "msg" /\ (Malformed \/ Unrecognized)) => Ignored

\* the same, for every topic but the one a node without a host id compares with
C21_BesidesNoneTopic ==
    (op.name = "msg" /\ (Malformed \/ Unrecognized) /\ op.arg[1] # NoneStateTopic)
        => Ignored

(***************************************************************************)
(* C22.  Keep-alive.  A keep-alive task exists only on a client whose      *)
(* keep-alive interval is greater than 0 and only after a successful       *)
(* connect(), and every connected node of such a client has one; a task    *)
(* that wakes up pings exactly when the connected flag is true, so never   *)
(* between a disconnect() and the next successful connect(); and when the  *)
(* scheduler keeps running the task and the node stays connected from some *)
(* point on, pings are emitted infinitely often, whatever other calls and  *)
(* messages occur.                                                         *)
(***************************************************************************)
Pinged == op.name = "wake" /\ calls = <<"ping">>

C22_KeepAlive ==
    /\ [](keepAlive.tasks > 0 => (keepAlive.interval > 0 /\ lastOkBd # None))
    /\ []((connected /\ keepAlive.interval > 0) => keepAlive.tasks > 0)
    /\ [](op.name = "wake" => (Pinged <=> connected))
    /\ [](Pinged => "NCMD" \in subs)
    /\ (<>[](connected /\ keepAlive.interval > 0)) => []<>Pinged

\* a ping on a node that was disconnected and connected again
C22_Witness ==
    /\ Pinged /\ connected /\ connects = 2 /\ keepAlive.tasks = 2

\* a task that wakes up after disconnect() and does not ping
C22_WitnessSilent ==
    /\ op.name = "wake" /\ calls = <<>> /\ ~connected /\ keepAlive.tasks > 0

====
